---------------------------- MODULE Spec2Model ----------------------------
(***************************************************************************)
(* A model of src/merge.py: the cell normaliser parse_list_column, the two *)
(* field mergers merge_list_columns and merge_sentiment_columns, and the   *)
(* row loop that merges two enrichment tables into a copy of the main      *)
(* table.                                                                  *)
(*                                                                         *)
(* Python values are tagged records.  A Python str is a sequence of        *)
(* one-character strings, so that strip, split, join, str(), repr() and    *)
(* ast.literal_eval are computed character by character.                   *)
(***************************************************************************)
EXTENDS Integers, Sequences, FiniteSets, TLC

VARIABLES
    np_empty_raises, \* the installed numpy: does bool() of an empty array raise
    raw,             \* the argument of the parse_list_column call under study
    parsed1,         \* parse_list_column(raw)
    parsed2,         \* parse_list_column(parsed1)
    args,            \* <<main_val, other_vals...>> of a merger call
    result,          \* what the merger call returned (or that it raised)
    main_df,         \* the three tables read at src/merge.py:64-66
    sheet1_df,
    sheet2_df,
    output_df,       \* the table under construction (src/merge.py:69)
    idx,             \* the row the loop is at
    pc               \* the position of the script

vars == <<np_empty_raises, raw, parsed1, parsed2, args, result, main_df,
          sheet1_df, sheet2_df, output_df, idx, pc>>

\* What the calls under study leave alone, and what the row loop leaves alone.
tableVars == <<main_df, sheet1_df, sheet2_df, output_df, idx>>

callVars == <<raw, parsed1, parsed2, args, result>>

---------------------------------------------------------------------------
(* Python values *)

\* None, or the float NaN pandas gives an empty cell.
NA == [t |-> "na"]

VStr(s) == [t |-> "str", s |-> s]

VInt(n) == [t |-> "int", n |-> n]

VList(xs) == [t |-> "list", items |-> xs]

VTuple(xs) == [t |-> "tuple", items |-> xs]

\* The call did not return: an exception left it.
Raised == [t |-> "raise"]

IsSeqValue(v) == v.t \in {"list", "tuple"}

---------------------------------------------------------------------------
(* str methods *)

Whitespace == {" "}

Quotes == {"'", "\""}

DigitChars == <<"0", "1", "2", "3", "4", "5", "6", "7", "8", "9">>

Digits == {DigitChars[i] : i \in 1..10}

DigitVal(c) == (CHOOSE i \in 1..10 : DigitChars[i] = c) - 1

RECURSIVE LStrip(_)
LStrip(s) ==
    IF s # <<>> /\ Head(s) \in Whitespace THEN LStrip(Tail(s)) ELSE s

RECURSIVE RStrip(_)
RStrip(s) ==
    IF s # <<>> /\ s[Len(s)] \in Whitespace
    THEN RStrip(SubSeq(s, 1, Len(s) - 1))
    ELSE s

\* str.strip()
Strip(s) == RStrip(LStrip(s))

\* The index of the first occurrence of character c in s at or after i, or 0.
RECURSIVE Find(_, _, _)
Find(s, c, i) ==
    IF i > Len(s) THEN 0
    ELSE IF s[i] = c THEN i
    ELSE Find(s, c, i + 1)

\* str.split(sep) for a one-character separator: always at least one piece.
RECURSIVE Split(_, _)
Split(s, sep) ==
    LET k == Find(s, sep, 1)
    IN  IF k = 0 THEN <<s>>
        ELSE <<SubSeq(s, 1, k - 1)>> \o Split(SubSeq(s, k + 1, Len(s)), sep)

\* sep.join(pieces)
RECURSIVE Join(_, _)
Join(pieces, sep) ==
    IF pieces = <<>> THEN <<>>
    ELSE IF Len(pieces) = 1 THEN pieces[1]
    ELSE pieces[1] \o sep \o Join(Tail(pieces), sep)

---------------------------------------------------------------------------
(* str() and repr() *)

RECURSIVE NatToStr(_)
NatToStr(n) ==
    IF n < 10 THEN <<DigitChars[n + 1]>>
    ELSE NatToStr(n \div 10) \o <<DigitChars[(n % 10) + 1]>>

IntToStr(n) == IF n < 0 THEN <<"-">> \o NatToStr(-n) ELSE NatToStr(n)

\* repr of a str without a backslash: single quotes, unless it holds a
\* single quote and no double quote.
ReprStr(s) ==
    LET q == IF Find(s, "'", 1) # 0 /\ Find(s, "\"", 1) = 0 THEN "\"" ELSE "'"
    IN  <<q>> \o s \o <<q>>

RECURSIVE Repr(_)
Repr(v) ==
    CASE v.t = "str" -> ReprStr(v.s)
      [] v.t = "int" -> IntToStr(v.n)
      [] v.t = "na" -> <<"n", "a", "n">>
      [] v.t = "list" ->
            <<"[">> \o Join([i \in 1..Len(v.items) |-> Repr(v.items[i])],
                            <<",", " ">>) \o <<"]">>
      [] v.t = "tuple" ->
            <<"(">> \o Join([i \in 1..Len(v.items) |-> Repr(v.items[i])],
                            <<",", " ">>)
                    \o (IF Len(v.items) = 1 THEN <<",">> ELSE <<>>) \o <<")">>

\* str(v)
PyStr(v) == IF v.t = "str" THEN v.s ELSE Repr(v)

---------------------------------------------------------------------------
(* ast.literal_eval (src/merge.py:14).  The grammar is Python's, cut to the *)
(* characters the model's strings are made of: quoted strings (plain and   *)
(* triple-quoted, adjacent ones concatenated), decimal integers with an    *)
(* optional unary minus, [ ] displays and the unparenthesised tuple.  A    *)
(* name (the model spells none of None, True, False, and no string prefix)  *)
(* and every other token end in SyntaxError or ValueError, which the       *)
(* caller's bare except does not tell apart.  Strings hold no backslash.   *)

Fail == [ok |-> FALSE]

Ok(v, next) == [ok |-> TRUE, val |-> v, pos |-> next]

CharAt(s, i) == IF i >= 1 /\ i <= Len(s) THEN s[i] ELSE "EOF"

\* The first index at or after i that holds no blank (Len(s) + 1 at the end).
RECURSIVE SkipSp(_, _)
SkipSp(s, i) == IF CharAt(s, i) = " " THEN SkipSp(s, i + 1) ELSE i

\* The end of the run of digits that starts at i.
RECURSIVE DigitsEnd(_, _)
DigitsEnd(s, i) == IF CharAt(s, i) \in Digits THEN DigitsEnd(s, i + 1) ELSE i

RECURSIVE DigitsVal(_)
DigitsVal(ds) ==
    IF ds = <<>> THEN 0
    ELSE 10 * DigitsVal(SubSeq(ds, 1, Len(ds) - 1)) + DigitVal(ds[Len(ds)])

\* A decimal integer at i: no leading zero unless every digit is a zero.
ParseNumber(s, i) ==
    LET e  == DigitsEnd(s, i)
        ds == SubSeq(s, i, e - 1)
    IN  IF e = i THEN Fail
        ELSE IF ds[1] = "0" /\ \E k \in 1..Len(ds) : ds[k] # "0" THEN Fail
        ELSE Ok(VInt(DigitsVal(ds)), e)

\* The first index k >= i with s[k], s[k+1], s[k+2] all the quote q, or 0.
RECURSIVE FindTriple(_, _, _)
FindTriple(s, q, i) ==
    IF i + 2 > Len(s) THEN 0
    ELSE IF s[i] = q /\ s[i + 1] = q /\ s[i + 2] = q THEN i
    ELSE FindTriple(s, q, i + 1)

\* One string literal whose opening quote is at i.
ParseOneString(s, i) ==
    LET q == s[i]
    IN  IF CharAt(s, i + 1) = q /\ CharAt(s, i + 2) = q
        THEN LET k == FindTriple(s, q, i + 3)
             IN  IF k = 0 THEN Fail
                 ELSE Ok(VStr(SubSeq(s, i + 3, k - 1)), k + 3)
        ELSE LET k == Find(s, q, i + 1)
             IN  IF k = 0 THEN Fail
                 ELSE Ok(VStr(SubSeq(s, i + 1, k - 1)), k + 1)

\* Adjacent string literals are one string.
RECURSIVE ParseStrings(_, _)
ParseStrings(s, i) ==
    LET one == ParseOneString(s, i)
    IN  IF ~one.ok THEN Fail
        ELSE LET j == SkipSp(s, one.pos)
             IN  IF CharAt(s, j) \in Quotes
                 THEN LET rest == ParseStrings(s, j)
                      IN  IF ~rest.ok THEN Fail
                          ELSE Ok(VStr(one.val.s \o rest.val.s), rest.pos)
                 ELSE one

RECURSIVE ParseAtom(_, _)
RECURSIVE ParseItems(_, _, _)

\* One expression at i (blanks skipped by the caller).
ParseAtom(s, i) ==
    LET c == CharAt(s, i)
    IN  CASE c = "[" -> ParseItems(s, SkipSp(s, i + 1), <<>>)
          [] c \in Quotes -> ParseStrings(s, i)
          [] c \in Digits -> ParseNumber(s, i)
          [] c = "-" ->
                LET n == ParseNumber(s, SkipSp(s, i + 1))
                IN  IF n.ok THEN Ok(VInt(-n.val.n), n.pos) ELSE Fail
          [] OTHER -> Fail

\* The rest of a [ ] display: i is past the bracket or past a comma.
ParseItems(s, i, acc) ==
    IF CharAt(s, i) = "]" THEN Ok(VList(acc), i + 1)
    ELSE LET a == ParseAtom(s, i)
         IN  IF ~a.ok THEN Fail
             ELSE LET j == SkipSp(s, a.pos)
                  IN  CASE CharAt(s, j) = "]" ->
                                Ok(VList(Append(acc, a.val)), j + 1)
                        [] CharAt(s, j) = "," ->
                                ParseItems(s, SkipSp(s, j + 1), Append(acc, a.val))
                        [] OTHER -> Fail

\* The rest of an unparenthesised tuple: i is past a comma.
RECURSIVE ParseTuple(_, _, _)
ParseTuple(s, i, acc) ==
    IF i > Len(s) THEN Ok(VTuple(acc), i)
    ELSE LET a == ParseAtom(s, i)
         IN  IF ~a.ok THEN Fail
             ELSE LET j == SkipSp(s, a.pos)
                  IN  CASE j > Len(s) -> Ok(VTuple(Append(acc, a.val)), j)
                        [] CharAt(s, j) = "," ->
                                ParseTuple(s, SkipSp(s, j + 1), Append(acc, a.val))
                        [] OTHER -> Fail

\* ast.literal_eval(s): [ok |-> TRUE, val |-> v] or, when it raises, Fail.
literal_eval(s) ==
    LET i == SkipSp(s, 1)
        a == ParseAtom(s, i)
    IN  IF ~a.ok THEN Fail
        ELSE LET j == SkipSp(s, a.pos)
             IN  CASE j > Len(s) -> a
                   [] CharAt(s, j) = "," ->
                        ParseTuple(s, SkipSp(s, j + 1), <<a.val>>)
                   [] OTHER -> Fail

---------------------------------------------------------------------------
(* pd.isna in a boolean context (src/merge.py:7 and :52) *)

RECURSIVE Concat(_)
Concat(seqs) == IF seqs = <<>> THEN <<>> ELSE Head(seqs) \o Concat(Tail(seqs))

\* The elements of numpy.asarray(xs, dtype=object), which pd.isna builds of a
\* list: numpy descends a level while every element of the level is a list or
\* tuple of one common length (a str is not descended).
RECURSIVE ArrLeaves(_)
ArrLeaves(xs) ==
    IF xs = <<>> THEN <<>>
    ELSE IF \A i \in 1..Len(xs) :
                /\ IsSeqValue(xs[i])
                /\ Len(xs[i].items) = Len(xs[1].items)
         THEN ArrLeaves(Concat([i \in 1..Len(xs) |-> xs[i].items]))
         ELSE xs

\* `pd.isna(value) or ...` evaluates bool(pd.isna(value)): "T", "F", or
\* "raise" (ValueError).  Of a scalar pd.isna is a bool.  Of a list it is an
\* array of bools, and the truth value of an array of two or more elements is
\* ambiguous: ValueError.  The truth value of an empty array is False under
\* numpy before 2.2 and a ValueError from 2.2 on.
isna_truth(value) ==
    CASE value.t = "na" -> "T"
      [] value.t = "list" ->
            LET leaves == ArrLeaves(value.items)
            IN  CASE Len(leaves) = 0 ->
                        IF np_empty_raises THEN "raise" ELSE "F"
                  [] Len(leaves) = 1 ->
                        IF leaves[1].t = "na" THEN "T" ELSE "F"
                  [] OTHER -> "raise"
      [] OTHER -> "F"

---------------------------------------------------------------------------
(* The Value Normalizer *)

Dashes == <<"-", "-", "-">>

\* The fallback without its test for a blank string.
ParseFallback_KeepsBlank(s) == VList(<<VStr(s)>>)

\* The list a failed parse falls back to (src/merge.py:20).
ParseFallback(s) == IF Strip(s) # <<>> THEN VList(<<VStr(s)>>) ELSE VList(<<>>)

\* parse_list_column(value): a list value, or Raised.
parse_list_column(value) ==
    LET na == isna_truth(value)
    IN  IF na = "raise" THEN Raised
        ELSE IF na = "T" THEN VList(<<>>)
        ELSE IF value.t = "str" /\ value.s \in {<<>>, Dashes} THEN VList(<<>>)
        ELSE IF value.t = "list" THEN value
        ELSE IF value.t = "str"
             THEN LET p == literal_eval(value.s)
                  IN  IF p.ok
                      THEN IF p.val.t = "list" THEN p.val ELSE VList(<<p.val>>)
                      ELSE ParseFallback(value.s)
        ELSE VList(<<>>)

---------------------------------------------------------------------------
(* The Field Merger, list fields *)

\* item_str = str(item).strip()
Identity(item) == Strip(PyStr(item))

\* Whether the scan appends the item (src/merge.py:31 and :39).
Keeps(item, seen) == Identity(item) # <<>> /\ Identity(item) \notin seen

\* One `for item in ...` loop over acc = [result |-> ..., seen |-> ...].
RECURSIVE ScanItems(_, _)
ScanItems(items, acc) ==
    IF items = <<>> THEN acc
    ELSE LET item == Head(items)
         IN  ScanItems(Tail(items),
                 IF Keeps(item, acc.seen)
                 THEN [result |-> Append(acc.result, item),
                       seen |-> acc.seen \cup {Identity(item)}]
                 ELSE acc)

\* The scans of main_val and of each of other_vals in turn; Raised as soon as
\* one parse_list_column raises.
RECURSIVE ScanVals(_, _)
ScanVals(vals, acc) ==
    IF vals = <<>> THEN VList(acc.result)
    ELSE LET p == parse_list_column(Head(vals))
         IN  IF p.t = "raise" THEN Raised
             ELSE ScanVals(Tail(vals), ScanItems(p.items, acc))

\* merge_list_columns(main_val, *other_vals)
merge_list_columns(main_val, other_vals) ==
    ScanVals(<<main_val>> \o other_vals, [result |-> <<>>, seen |-> {}])

---------------------------------------------------------------------------
(* The Field Merger, sentiment field *)

neutral == <<"n", "e", "u", "t", "r", "a", "l">>

\* [item.strip() for item in str(val).split(',')]
SentimentPieces(val) ==
    LET ps == Split(PyStr(val), ",")
    IN  [i \in 1..Len(ps) |-> Strip(ps[i])]

\* The test without `item != 'neutral'`.
KeepsPiece_NeutralKept(item, seen) == item # <<>> /\ item \notin seen

\* Whether the scan appends the piece (src/merge.py:57).
KeepsPiece(item, seen) == item # <<>> /\ item # neutral /\ item \notin seen

RECURSIVE ScanPieces(_, _)
ScanPieces(items, acc) ==
    IF items = <<>> THEN acc
    ELSE LET item == Head(items)
         IN  ScanPieces(Tail(items),
                 IF KeepsPiece(item, acc.seen)
                 THEN [result |-> Append(acc.result, item),
                       seen |-> acc.seen \cup {item}]
                 ELSE acc)

\* The `continue` test of src/merge.py:52: "T", "F", or "raise".
SkipsVal(val) ==
    LET na == isna_truth(val)
    IN  IF na # "F" THEN na
        ELSE IF val.t = "str" /\ val.s \in {<<>>, neutral} THEN "T"
        ELSE "F"

RECURSIVE ScanSentiments(_, _)
ScanSentiments(vals, acc) ==
    IF vals = <<>> THEN VStr(Join(acc.result, <<",", " ">>))
    ELSE LET skip == SkipsVal(Head(vals))
         IN  CASE skip = "raise" -> Raised
               [] skip = "T" -> ScanSentiments(Tail(vals), acc)
               [] OTHER ->
                    ScanSentiments(Tail(vals),
                                   ScanPieces(SentimentPieces(Head(vals)), acc))

\* merge_sentiment_columns(main_val, *other_vals)
merge_sentiment_columns(main_val, other_vals) ==
    ScanSentiments(<<main_val>> \o other_vals, [result |-> <<>>, seen |-> {}])

---------------------------------------------------------------------------
(* Calls of parse_list_column: one call on a raw value and, when it        *)
(* returns, a second call on what it returned.                             *)

\* The longest enumerated string.
MaxLen == 4

\* The longest enumerated native list.
MaxListLen == 2

\* Not yet computed, or not part of the run.
Unset == [t |-> "unset"]

Alphabet == {"a", "1", " ", "'", "[", "]", ",", "-"}

Strings == UNION {[1..k -> Alphabet] : k \in 0..MaxLen}

\* What a native list given to the normaliser may hold.
ListItems == {NA, VInt(1), VStr(<<>>), VStr(<<"a">>), VStr(<<" ", "a">>)}

NativeLists == UNION {[1..k -> ListItems] : k \in 0..MaxListLen}

RawValues ==
    {NA, VInt(1), VStr(Dashes)}
        \cup {VStr(s) : s \in Strings}
        \cup {VList(xs) : xs \in NativeLists}

NoTables ==
    /\ main_df = <<>>
    /\ sheet1_df = <<>>
    /\ sheet2_df = <<>>
    /\ output_df = <<>>
    /\ idx = 0

NoCall == args = <<>> /\ result = Unset

NoParse == raw = Unset /\ parsed1 = Unset /\ parsed2 = Unset

InitParse ==
    /\ np_empty_raises \in BOOLEAN
    /\ raw \in RawValues
    /\ parsed1 = Unset
    /\ parsed2 = Unset
    /\ NoCall
    /\ NoTables
    /\ pc = "parse"

Parse ==
    /\ pc = "parse"
    /\ parsed1' = parse_list_column(raw)
    /\ pc' = "reparse"
    /\ UNCHANGED <<np_empty_raises, raw, parsed2, args, result, tableVars>>

Reparse ==
    /\ pc = "reparse"
    /\ parsed1.t = "list"
    /\ parsed2' = parse_list_column(parsed1)
    /\ pc' = "parsed"
    /\ UNCHANGED <<np_empty_raises, raw, parsed1, args, result, tableVars>>

NextParse == Parse \/ Reparse

SpecParse == InitParse /\ [][NextParse]_vars

---------------------------------------------------------------------------
(* Properties of the Value Normalizer, under SpecParse *)

\* The first call has been made.
Parsed == pc \in {"reparse", "parsed"}

\* A string that is not empty, not "---", and that literal_eval rejects.
FailsToParse(v) ==
    /\ v.t = "str"
    /\ v.s \notin {<<>>, Dashes}
    /\ ~literal_eval(v.s).ok

\* C3: parse_list_column never raises: whatever the raw value, a native list
\* of two or more items included, the call returns a sequence.
C3_NeverRaises == Parsed => parsed1.t = "list"

\* C4: normalisation is idempotent, normalize(normalize(x)) = normalize(x),
\* and a value that is already a native list is returned as it is, whatever
\* its length and items.
C4_Idempotent ==
    /\ (Parsed /\ raw.t = "list") => parsed1 = raw
    /\ pc = "parsed" => parsed2 = parsed1

\* C10 as stated: a string that fails to parse gives the one-item sequence
\* of the TRIMMED string, or the empty sequence when the trimmed string is
\* empty; a string that parses to a scalar gives that scalar wrapped.
C10_FallbackTrimmed ==
    /\ (Parsed /\ FailsToParse(raw)) =>
            parsed1 = IF Strip(raw.s) = <<>> THEN VList(<<>>)
                      ELSE VList(<<VStr(Strip(raw.s))>>)
    /\ (Parsed /\ raw.t = "str" /\ raw.s \notin {<<>>, Dashes}
               /\ literal_eval(raw.s).ok
               /\ literal_eval(raw.s).val.t \in {"str", "int"}) =>
            parsed1 = VList(<<literal_eval(raw.s).val>>)

\* C10 as amended: a string that fails to parse gives the one-item sequence
\* of the string ITSELF, blanks kept, or the empty sequence when the trimmed
\* string is empty; a string that parses to a scalar gives that scalar
\* wrapped.
C10_FallbackUntrimmed ==
    /\ (Parsed /\ FailsToParse(raw)) =>
            parsed1 = IF Strip(raw.s) = <<>> THEN VList(<<>>)
                      ELSE VList(<<raw>>)
    /\ (Parsed /\ raw.t = "str" /\ raw.s \notin {<<>>, Dashes}
               /\ literal_eval(raw.s).ok
               /\ literal_eval(raw.s).val.t \in {"str", "int"}) =>
            parsed1 = VList(<<literal_eval(raw.s).val>>)

\* A string with a leading blank failed to parse and came back whole.
C10_Witness ==
    /\ Parsed
    /\ FailsToParse(raw)
    /\ Strip(raw.s) # raw.s
    /\ Strip(raw.s) # <<>>
    /\ parsed1 = VList(<<raw>>)

---------------------------------------------------------------------------
(* Calls of the two field mergers on a main value and a few other values.  *)

\* The most other_vals a modelled call passes.
MaxOthers == 2

Q == <<"'">>

sAlice == <<"A", "l", "i", "c", "e">>

sBob == <<"B", "o", "b">>

happy == <<"h", "a", "p", "p", "y">>

sad == <<"s", "a", "d">>

joy == <<"j", "o", "y">>

\* Raw values of a list field: missing, a number, "", "---", plain names,
\* " Alice", "['Alice']", "['Alice', 'Bob']", "['', 'Bob ']", "[1, '1']",
\* and native lists of no, one and two items.
MergeVals ==
    {NA, VInt(1), VStr(<<>>), VStr(Dashes), VStr(sBob), VStr(sAlice),
     VStr(<<" ">> \o sAlice),
     VStr(<<"[">> \o Q \o sAlice \o Q \o <<"]">>),
     VStr(<<"[">> \o Q \o sAlice \o Q \o <<",", " ">> \o Q \o sBob \o Q
                  \o <<"]">>),
     VStr(<<"[">> \o Q \o Q \o <<",", " ">> \o Q \o sBob \o <<" ">> \o Q
                  \o <<"]">>),
     VStr(<<"[", "1", ",", " ">> \o Q \o <<"1">> \o Q \o <<"]">>),
     VList(<<>>),
     VList(<<VStr(sAlice)>>),
     VList(<<VStr(sAlice), VStr(sBob)>>)}

\* Raw values of the sentiment field: missing, a number, "", " ", "neutral",
\* "joy", "happy, sad", "sad, joy", " neutral , joy", "neutral,neutral",
\* "joy,,sad ", ",", and native lists of one and two items.
SentimentVals ==
    {NA, VInt(1), VStr(<<>>), VStr(<<" ">>), VStr(neutral), VStr(joy),
     VStr(happy \o <<",", " ">> \o sad),
     VStr(sad \o <<",", " ">> \o joy),
     VStr(<<" ">> \o neutral \o <<" ", ",", " ">> \o joy),
     VStr(neutral \o <<",">> \o neutral),
     VStr(joy \o <<",", ",">> \o sad \o <<" ">>),
     VStr(<<",">>),
     VList(<<VStr(joy)>>),
     VList(<<VStr(joy), VStr(sad)>>)}

ArgLists(S) == UNION {[1..k -> S] : k \in 1..(MaxOthers + 1)}

InitMerge ==
    /\ np_empty_raises \in BOOLEAN
    /\ args \in ArgLists(MergeVals)
    /\ result = Unset
    /\ NoParse
    /\ NoTables
    /\ pc = "call"

\* result = merge_list_columns(args[0], *args[1:])
CallMergeList ==
    /\ pc = "call"
    /\ result' = merge_list_columns(Head(args), Tail(args))
    /\ pc' = "merged"
    /\ UNCHANGED <<np_empty_raises, raw, parsed1, parsed2, args, tableVars>>

SpecMerge == InitMerge /\ [][CallMergeList]_vars

InitSentiments ==
    /\ np_empty_raises \in BOOLEAN
    /\ args \in ArgLists(SentimentVals)
    /\ result = Unset
    /\ NoParse
    /\ NoTables
    /\ pc = "call"

\* result = merge_sentiment_columns(args[0], *args[1:])
CallMergeSentiments ==
    /\ pc = "call"
    /\ result' = merge_sentiment_columns(Head(args), Tail(args))
    /\ pc' = "merged"
    /\ UNCHANGED <<np_empty_raises, raw, parsed1, parsed2, args, tableVars>>

SpecSentiments == InitSentiments /\ [][CallMergeSentiments]_vars

---------------------------------------------------------------------------
(* Properties of the list merger, under SpecMerge *)

Merged == pc = "merged"

\* Every argument of the call normalises without raising.
AllNormalise(vals) ==
    \A i \in 1..Len(vals) : parse_list_column(vals[i]).t = "list"

\* The items of the normalised arguments, main value first, in scan order.
NormalisedItems(vals) ==
    Concat([i \in 1..Len(vals) |-> parse_list_column(vals[i]).items])

Identities(items) == {Identity(items[i]) : i \in 1..Len(items)}

\* The first item of the sequence with the given identity.
FirstWith(items, id) ==
    items[CHOOSE i \in 1..Len(items) :
            /\ Identity(items[i]) = id
            /\ \A j \in 1..(i - 1) : Identity(items[j]) # id]

\* The result holds every non-empty identity of the inputs once, as its
\* first-encountered representation, and nothing else.
DedupedByIdentity(res, items) ==
    /\ \A i, j \in 1..Len(res) : Identity(res[i]) = Identity(res[j]) => i = j
    /\ \A i \in 1..Len(res) : Identity(res[i]) # <<>>
    /\ Identities(res) = Identities(items) \ {<<>>}
    /\ \A i \in 1..Len(res) : res[i] = FirstWith(items, Identity(res[i]))

\* C1: for every main value and other values, the result of
\* merge_list_columns holds each distinct non-empty trimmed-string identity of
\* the normalised inputs exactly once, never an empty identity, and keeps the
\* first-encountered representation of each.
C1_DedupByIdentity ==
    Merged =>
        /\ result.t = "list"
        /\ AllNormalise(args) =>
                DedupedByIdentity(result.items, NormalisedItems(args))

\* What C1 says of the calls that return (those no argument of which makes
\* parse_list_column raise).
MergeDedupsWhenItReturns ==
    (Merged /\ result.t = "list") =>
        /\ AllNormalise(args)
        /\ DedupedByIdentity(result.items, NormalisedItems(args))

\* No two items of the sequence share an identity.
NoDuplicates(items) ==
    \A i, j \in 1..Len(items) :
        Identity(items[i]) = Identity(items[j]) => i = j

\* C2: for inputs without duplicates the result is the main value's
\* normalised items followed by each other value's normalised items, in the
\* order the values were passed.
C2_OrderPreserved ==
    Merged =>
        /\ result.t = "list"
        /\ (AllNormalise(args) /\ NoDuplicates(NormalisedItems(args))) =>
                result.items = NormalisedItems(args)

\* What C2 says of the calls that return, the items of empty identity left
\* out: they are dropped, duplicates or not.
MergeKeepsOrderWhenItReturns ==
    (Merged /\ result.t = "list" /\ NoDuplicates(NormalisedItems(args))) =>
        result.items = SelectSeq(NormalisedItems(args),
                                 LAMBDA x : Identity(x) # <<>>)

---------------------------------------------------------------------------
(* Properties of the sentiment merger, under SpecSentiments *)

\* The trimmed pieces of every non-missing argument, in scan order.
AllPieces(vals) ==
    Concat([i \in 1..Len(vals) |->
                IF vals[i].t = "na" \/ vals[i] = VList(<<NA>>) THEN <<>>
                ELSE SentimentPieces(vals[i])])

\* The pieces that count, each at its first occurrence.
RECURSIVE FirstOccurrences(_, _)
FirstOccurrences(ps, n) ==
    IF n = 0 THEN <<>>
    ELSE LET rest == FirstOccurrences(ps, n - 1)
         IN  IF /\ ps[n] \notin {<<>>, neutral}
                /\ \A j \in 1..(n - 1) : ps[j] # ps[n]
             THEN Append(rest, ps[n])
             ELSE rest

\* C5: no comma-separated piece of the returned string is empty or
\* "neutral"; and when every argument is missing, empty, or made only of
\* "neutral" and empty pieces, the returned string is empty.
C5_NoNeutralPiece ==
    Merged =>
        /\ result.t = "str" =>
                \/ result.s = <<>>
                \/ \A i \in 1..Len(Split(result.s, ",")) :
                        Strip(Split(result.s, ",")[i]) \notin {<<>>, neutral}
        /\ (\A i \in 1..Len(args) :
                \/ args[i].t = "na"
                \/ /\ args[i].t = "str"
                   /\ \A k \in 1..Len(SentimentPieces(args[i])) :
                        SentimentPieces(args[i])[k] \in {<<>>, neutral})
            => result = VStr(<<>>)

\* A "neutral" piece arrived beside a real one and only the real one is
\* returned.
C5_Witness ==
    /\ Merged
    /\ \E i \in 1..Len(AllPieces(args)) : AllPieces(args)[i] = neutral
    /\ result = VStr(joy)

\* merge_sentiment_columns("neutral", "neutral") returned "".
C5_NeutralOnly ==
    /\ Merged
    /\ args = <<VStr(neutral), VStr(neutral)>>
    /\ result = VStr(<<>>)

\* C6: the returned string is the distinct trimmed non-neutral pieces of the
\* arguments, each once at the place of its first occurrence (main value
\* first, then the other values in order), joined by ", ".
C6_FirstOccurrenceJoin ==
    Merged =>
        result = VStr(Join(FirstOccurrences(AllPieces(args),
                                            Len(AllPieces(args))),
                           <<",", " ">>))

\* What C6 says of the calls that return (those no argument of which makes
\* pd.isna raise).
SentimentsJoinWhenItReturns ==
    (Merged /\ result.t = "str") => C6_FirstOccurrenceJoin

\* merge_sentiment_columns("happy, sad", "sad, joy") returned
\* "happy, sad, joy".
C6_Witness ==
    /\ Merged
    /\ args = <<VStr(happy \o <<",", " ">> \o sad),
                VStr(sad \o <<",", " ">> \o joy)>>
    /\ result = VStr(happy \o <<",", " ">> \o sad \o <<",", " ">> \o joy)

---------------------------------------------------------------------------
(* The row loop (src/merge.py:69-111).  A table is a sequence of rows, row  *)
(* idx of the script being element idx + 1; a row maps the table's column  *)
(* names to cell values.                                                   *)

MainCols == {"poem", "people", "places", "sentiments", "objects"}

\* The first table's sub-columns with objects looked up before
\* original_objects.
Sheet1ObjectCols_ObjectsFirst ==
    <<"objects", "original_objects", "objects_02", "objects_03", "objects_04",
      "objects_05">>

\* The sub-columns looked up for objects, in the order of src/merge.py:104
\* and :108.
Sheet1ObjectCols ==
    <<"original_objects", "objects", "objects_02", "objects_03", "objects_04",
      "objects_05">>

Sheet2ObjectCols ==
    <<"objects", "objects_02", "objects_03", "objects_04", "objects_05">>

\* The row variable of an enrichment table that has no row idx.
NoRow == [none |-> TRUE]

\* A table has row i, but the lookup takes its last row when i is past it.
SheetRow_Clamped(df, i) ==
    IF Len(df) = 0 THEN NoRow
    ELSE IF i < Len(df) THEN df[i + 1] ELSE df[Len(df)]

\* sheet_df.iloc[idx] if idx < len(sheet_df) else None
SheetRow(df, i) == IF i < Len(df) THEN df[i + 1] ELSE NoRow

\* row.get(col): None when the row has no such column.
Get(row, col) == IF col \in DOMAIN row THEN row[col] ELSE NA

\* The .extend([row.get(a), row.get(b)]) done if the row is not None.
PairOf(row, a, b) ==
    IF row # NoRow THEN <<Get(row, a), Get(row, b)>> ELSE <<>>

\* The .append(row.get(col)) for each col of cols that is `in` the row, done
\* if the row is not None.
PresentOf(row, cols) ==
    IF row # NoRow
    THEN LET present == SelectSeq(cols, LAMBDA c : c \in DOMAIN row)
         IN  [k \in 1..Len(present) |-> row[present[k]]]
    ELSE <<>>

sheet1_row == SheetRow(sheet1_df, idx)

sheet2_row == SheetRow(sheet2_df, idx)

people_cols ==
    PairOf(sheet1_row, "people", "people_02") \o PairOf(sheet2_row, "people", "people_02")

places_cols ==
    PairOf(sheet1_row, "places", "places_02") \o PairOf(sheet2_row, "places", "places_02")

sentiments_cols ==
    PairOf(sheet1_row, "Sentiments", "Sentiments_02") \o PairOf(sheet2_row, "Sentiments", "Sentiments_02")

objects_cols ==
    PresentOf(sheet1_row, Sheet1ObjectCols)
        \o PresentOf(sheet2_row, Sheet2ObjectCols)

\* df[col] = v: the whole column is assigned.
SetCell_WholeColumn(df, i, col, v) ==
    [r \in DOMAIN df |-> [df[r] EXCEPT ![col] = v]]

\* df.at[i, col] = v
SetCell(df, i, col, v) == [df EXCEPT ![i + 1][col] = v]

\* One merge statement of the loop body: the cell is written unless the
\* merger raised, which ends the script.
MergeStep(here, col, merged, next) ==
    /\ pc = here
    /\ IF merged.t = "raise"
       THEN /\ pc' = "crashed"
            /\ UNCHANGED <<output_df, idx>>
       ELSE /\ output_df' = SetCell(output_df, idx, col, merged)
            /\ IF next = "people"
               THEN /\ idx' = idx + 1
                    /\ pc' = IF idx + 1 < Len(output_df) THEN "people"
                             ELSE "done"
               ELSE /\ idx' = idx
                    /\ pc' = next
    /\ UNCHANGED <<np_empty_raises, callVars, main_df, sheet1_df, sheet2_df>>

\* output_df = main_df.copy(), and the loop is entered (src/merge.py:69-72)
CopyMain ==
    /\ pc = "start"
    /\ output_df' = main_df
    /\ idx' = 0
    /\ pc' = IF Len(main_df) > 0 THEN "people" ELSE "done"
    /\ UNCHANGED <<np_empty_raises, callVars, main_df, sheet1_df, sheet2_df>>

\* src/merge.py:78-83
MergePeople ==
    MergeStep("people", "people",
              merge_list_columns(output_df[idx + 1]["people"], people_cols),
              "places")

\* src/merge.py:86-91
MergePlaces ==
    MergeStep("places", "places",
              merge_list_columns(output_df[idx + 1]["places"], places_cols),
              "sentiments")

\* src/merge.py:94-99
MergeSentiments ==
    MergeStep("sentiments", "sentiments",
              merge_sentiment_columns(output_df[idx + 1]["sentiments"],
                                      sentiments_cols),
              "objects")

\* src/merge.py:102-111, and the loop's next iteration or its end
MergeObjects ==
    MergeStep("objects", "objects",
              merge_list_columns(output_df[idx + 1]["objects"], objects_cols),
              "people")

Next == CopyMain \/ MergePeople \/ MergePlaces \/ MergeSentiments \/ MergeObjects

---------------------------------------------------------------------------
(* The tables the script may read.  read_excel yields scalar cells only:   *)
(* missing, numbers and strings.                                           *)

\* The most rows a modelled table has.
MaxRows == 2

\* The most object sub-column cells that hold a value in SpecObjects.
MaxFilled == 3

rome == <<"R", "o", "m", "e">>

chair == <<"c", "h", "a", "i", "r">>

table == <<"t", "a", "b", "l", "e">>

lamp == <<"l", "a", "m", "p">>

SheetCols ==
    {"people", "people_02", "places", "places_02", "Sentiments",
     "Sentiments_02", "original_objects", "objects", "objects_02",
     "objects_03", "objects_04", "objects_05"}

\* A table with every sub-column, and one without the later ones.
SheetColSets ==
    {SheetCols,
     SheetCols \ {"people_02", "Sentiments_02", "original_objects",
                  "objects_03", "objects_04", "objects_05"}}

Restrict(row, cols) == [c \in cols |-> row[c]]

EmptyRow == [c \in SheetCols |-> NA]

\* Main rows: one with values in every merged field, one whose list fields
\* are "---", "" and missing.
MainRows ==
    {[poem |-> VStr(<<"p", "1">>),
      people |-> VStr(<<"[">> \o Q \o sAlice \o Q \o <<"]">>),
      places |-> VStr(rome),
      sentiments |-> VStr(happy \o <<",", " ">> \o sad),
      objects |-> VStr(<<"[", "]">>)],
     [poem |-> VInt(2),
      people |-> VStr(Dashes),
      places |-> VStr(<<>>),
      sentiments |-> VStr(neutral),
      objects |-> NA]}

Sheet1Rows ==
    {[EmptyRow EXCEPT !["people"] = VStr(sBob),
                      !["people_02"] = VStr(sAlice),
                      !["places"] = VStr(<<" ">> \o rome),
                      !["Sentiments"] = VStr(sad \o <<",", " ">> \o joy),
                      !["original_objects"] = VStr(chair),
                      !["objects"] = VStr(table)],
     [EmptyRow EXCEPT !["people"] = VStr(<<"[">> \o Q \o sBob \o Q \o <<"]">>),
                      !["places_02"] = VStr(Dashes),
                      !["Sentiments_02"] = VStr(neutral),
                      !["objects_03"] = VStr(lamp)]}

Sheet2Rows ==
    {[EmptyRow EXCEPT !["people_02"] = VStr(sBob \o <<" ">>),
                      !["places"] = VStr(rome),
                      !["Sentiments"] = VStr(<<" ">> \o neutral \o <<" ", ",", " ">>
                                             \o joy),
                      !["original_objects"] = VStr(lamp),
                      !["objects_02"] = VStr(chair)],
     [EmptyRow EXCEPT !["people"] = VStr(sAlice),
                      !["places"] = VInt(1),
                      !["objects"] = VStr(<<"[">> \o Q \o table \o Q \o <<"]">>)]}

\* The tables of n rows whose rows are templates cut to one column set.
SheetTables(rows, n) ==
    UNION {[1..n -> {Restrict(r, cols) : r \in rows}] : cols \in SheetColSets}

NotStarted == output_df = <<>> /\ idx = 0 /\ pc = "start"

Init ==
    /\ np_empty_raises \in BOOLEAN
    /\ NoParse
    /\ NoCall
    /\ \E n \in 0..MaxRows : main_df \in [1..n -> MainRows]
    /\ \E n \in 0..MaxRows : sheet1_df \in SheetTables(Sheet1Rows, n)
    /\ \E n \in 0..MaxRows : sheet2_df \in SheetTables(Sheet2Rows, n)
    /\ NotStarted

Spec == Init /\ [][Next]_vars

---------------------------------------------------------------------------
(* One-row tables whose object sub-columns hold a few values, chosen cell  *)
(* by cell.                                                                *)

\* The object cells of the two enrichment rows: <<table, column>>.
ObjCells ==
    {<<1, Sheet1ObjectCols[k]>> : k \in 1..Len(Sheet1ObjectCols)}
        \cup {<<2, Sheet2ObjectCols[k]>> : k \in 1..Len(Sheet2ObjectCols)}

ObjVals == {VStr(chair), VStr(table)}

\* "[]" and "[' chair']"
ObjPrimaries ==
    {VStr(<<"[", "]">>), VStr(<<"[">> \o Q \o <<" ">> \o chair \o Q \o <<"]">>)}

\* The enrichment row of table n that holds fill[cell] in each filled cell.
FilledRow(n, base, fill) ==
    [c \in SheetCols |-> IF <<n, c>> \in DOMAIN fill THEN fill[<<n, c>>]
                         ELSE base[c]]

InitObjects ==
    /\ np_empty_raises = TRUE
    /\ NoParse
    /\ NoCall
    /\ \E prim \in ObjPrimaries :
            main_df = <<[poem |-> VStr(<<"p", "1">>), people |-> NA,
                         places |-> NA, sentiments |-> NA, objects |-> prim]>>
    /\ \E cells \in {F \in SUBSET ObjCells : Cardinality(F) <= MaxFilled} :
       \E fill \in [cells -> ObjVals] :
       \E cols \in SheetColSets :
            /\ sheet1_df = <<Restrict(FilledRow(1, EmptyRow, fill), cols)>>
            /\ sheet2_df =
                   <<Restrict(FilledRow(2,
                                  [EmptyRow EXCEPT !["original_objects"] =
                                                        VStr(lamp)],
                                  fill),
                              cols)>>
    /\ NotStarted

SpecObjects == InitObjects /\ [][Next]_vars

---------------------------------------------------------------------------
(* Properties of the row loop *)

MergedFields == {"people", "places", "sentiments", "objects"}

ListFields == {"people", "places", "objects"}

FieldNo == [people |-> 1, places |-> 2, sentiments |-> 3, objects |-> 4]

\* The loop has written field f of row r (rows counted from 1).
Written(r, f) ==
    \/ r <= idx
    \/ r = idx + 1 /\ pc \in MergedFields /\ FieldNo[pc] > FieldNo[f]

\* The cells of row r of an enrichment table, none if it has no such row.
RowCells(df, r) ==
    IF r <= Len(df) THEN {df[r][c] : c \in DOMAIN df[r]} ELSE {}

\* The identities a raw cell normalises to.
CellIdentities(v) == Identities(parse_list_column(v).items)

\* C7: whatever the number of rows processed, the output table has the rows
\* and columns of the main table, a step of the loop at row idx changes no
\* cell but the merged field it is at in row idx, the passthrough field
\* keeps the main table's value, and the main table and both enrichment
\* tables are never changed.
C7_Frame ==
    /\ [](pc # "start" =>
            /\ Len(output_df) = Len(main_df)
            /\ \A r \in 1..Len(output_df) :
                    /\ DOMAIN output_df[r] = DOMAIN main_df[r]
                    /\ output_df[r]["poem"] = main_df[r]["poem"])
    /\ [][/\ main_df' = main_df
          /\ sheet1_df' = sheet1_df
          /\ sheet2_df' = sheet2_df
          /\ pc # "start" =>
                /\ Len(output_df') = Len(output_df)
                /\ \A r \in 1..Len(output_df) : \A c \in MainCols :
                        output_df'[r][c] # output_df[r][c] =>
                            r = idx + 1 /\ c = pc]_vars

\* Two rows have been processed, cells were merged, and the tables read are
\* as they were.
C7_Witness ==
    /\ pc = "done"
    /\ idx = 2
    /\ Len(sheet1_df) = 2
    /\ output_df[1]["people"] # main_df[1]["people"]
    /\ output_df[2]["objects"] # main_df[2]["objects"]
    /\ output_df[2]["poem"] = main_df[2]["poem"]

\* C8: a table that has no row idx contributes nothing to row idx and the
\* loop does not fail; and when the main value of a list field is missing,
\* empty or "---" and neither table has the row, the merged field is the
\* empty sequence.
C8_MissingRows ==
    /\ pc # "crashed"
    /\ \A r \in 1..Len(output_df) : \A f \in ListFields :
            Written(r, f) =>
                /\ output_df[r][f].t = "list"
                /\ Identities(output_df[r][f].items) \subseteq
                        UNION {CellIdentities(v) :
                                v \in {main_df[r][f]} \cup RowCells(sheet1_df, r)
                                        \cup RowCells(sheet2_df, r)}
                /\ (/\ r > Len(sheet1_df)
                    /\ r > Len(sheet2_df)
                    /\ main_df[r][f] \in {NA, VStr(<<>>), VStr(Dashes)}) =>
                        output_df[r][f] = VList(<<>>)

\* Row 2 was merged with the first table one row long and the second empty:
\* "---" became the empty sequence.
C8_Witness ==
    /\ pc = "done"
    /\ idx = 2
    /\ Len(sheet1_df) = 1
    /\ Len(sheet2_df) = 0
    /\ main_df[2]["people"] = VStr(Dashes)
    /\ output_df[2]["people"] = VList(<<>>)
    /\ output_df[1]["people"] # VList(<<>>)

\* The order the objects sub-columns are consumed in, after the main value.
ObjOrder ==
    <<<<1, "original_objects">>, <<1, "objects">>, <<1, "objects_02">>,
      <<1, "objects_03">>, <<1, "objects_04">>, <<1, "objects_05">>,
      <<2, "objects">>, <<2, "objects_02">>, <<2, "objects_03">>,
      <<2, "objects_04">>, <<2, "objects_05">>>>

\* The cell of row r at an <<table, column>>, missing if there is none.
CellAt(pos, r) ==
    LET df == IF pos[1] = 1 THEN sheet1_df ELSE sheet2_df
    IN  IF r <= Len(df) /\ pos[2] \in DOMAIN df[r] THEN df[r][pos[2]] ELSE NA

ObjSources(r) ==
    <<main_df[r]["objects"]>> \o [k \in 1..Len(ObjOrder) |-> CellAt(ObjOrder[k], r)]

\* The index of the first item of the sequence with the given identity.
FirstIndex(items, id) ==
    CHOOSE i \in 1..Len(items) :
        /\ Identity(items[i]) = id
        /\ \A j \in 1..(i - 1) : Identity(items[j]) # id

\* The items of the result stand in the order of their first occurrences.
OrderedByFirst(res, items) ==
    \A i, j \in 1..Len(res) :
        i < j => FirstIndex(items, Identity(res[i]))
                    < FirstIndex(items, Identity(res[j]))

\* C9: the objects field of a row is the main value's items followed by
\* those of the first table's original_objects, objects, objects_02 ..
\* objects_05 and of the second table's objects, objects_02 .. objects_05,
\* absent sub-columns giving nothing: each identity once, at the place of its
\* earliest sub-column in that order.
C9_ObjectsOrder ==
    \A r \in 1..Len(output_df) :
        Written(r, "objects") =>
            /\ output_df[r]["objects"].t = "list"
            /\ DedupedByIdentity(output_df[r]["objects"].items,
                                 NormalisedItems(ObjSources(r)))
            /\ OrderedByFirst(output_df[r]["objects"].items,
                              NormalisedItems(ObjSources(r)))

\* Main value "[]", first table original_objects "chair" and objects
\* "table", second table objects_02 "chair": the field is chair, table.
C9_Witness ==
    /\ pc = "done"
    /\ main_df[1]["objects"] = VStr(<<"[", "]">>)
    /\ CellAt(<<1, "original_objects">>, 1) = VStr(chair)
    /\ CellAt(<<1, "objects">>, 1) = VStr(table)
    /\ CellAt(<<2, "objects_02">>, 1) = VStr(chair)
    /\ output_df[1]["objects"] = VList(<<VStr(chair), VStr(table)>>)

===========================================================================
